---- MODULE Spec2Model ----
(***************************************************************************)
(* A model of fzyr: the per-pair scoring core (src/score/mod.rs) and the   *)
(* parallel search driver (src/search/parallel.rs).                        *)
(*                                                                         *)
(* Strings are sequences of characters; a character is named by a string   *)
(* ("a", "A", "/", "U+267A").  Sequence positions are 1-based, so the      *)
(* character the code calls chars().nth(j) is s[j + 1].                    *)
(*                                                                         *)
(* Scores are f64 in the code.  Here a finite score is an integer number   *)
(* of thousandths (0.9 is 900, -0.005 is -5), which is exact for every     *)
(* sum of the scoring constants; the two infinities are SCORE_MIN and      *)
(* SCORE_MAX, and fadd keeps -inf + x = -inf.                              *)
(***************************************************************************)
EXTENDS Integers, Sequences, FiniteSets, TLC

VARIABLES
  query,                \* the query string of the call
  candidate,            \* the candidate of a direct has_match / score / locate call
  op,                   \* which surface operation was called: "none" before the call
  status,               \* "idle" before the call, then "ok" (returned) or "panic" (aborted)
  matched,              \* the boolean returned by has_match
  result,               \* the ScoreResult / LocateResult returned by score / locate
  candidates,           \* the candidate slice of a search
  parallelism,          \* the configured parallelism of a search
  search_fn,            \* "score_inner" (search_score) or "locate_inner" (search_locate)
  pc,                   \* position of the driver inside search_internal
  remaining_candidates, \* search_internal: candidates not yet handed to a thread
  thread_offset,        \* search_internal: global index of the next shard
  rest,                 \* search_internal: the slice left after the shards split off
  threads,              \* the spawned scoped threads: shard, offset, state
  channel,              \* the bounded channel: batches in arrival order
  output,               \* the collected result of the search
  run,                  \* 1 for the first execution of the search, 2 for its repetition
  previous,             \* the output of the first execution, kept for the second
  helper,               \* the internal helper or test a unit call runs: "none" before it
  args,                 \* the arguments of the unit call
  ret                   \* what the unit call returned

vars == <<query, candidate, op, status, matched, result, candidates, parallelism,
          search_fn, pc, remaining_candidates, thread_offset, rest, threads,
          channel, output, run, previous, helper, args, ret>>

scoreVars == <<candidate, op, status, matched, result>>
searchVars == <<candidates, parallelism, search_fn, pc, remaining_candidates,
                thread_offset, rest, threads, channel, output, run, previous>>
unitVars == <<helper, args, ret>>

(***************************************************************************)
(* Bounds of the model.                                                    *)
(***************************************************************************)
MaxQLen == 2      \* longest query of a direct call
MaxCLen == 4      \* longest candidate of a direct call
MaxN == 6         \* longest candidate slice of a search
MaxPar == 2       \* largest configured parallelism of a search
MaxOver == 2      \* how far beyond the caps the oversized candidates go
MaxCount == 40    \* largest candidate_count handed to calculate_parallelism
MaxConf == 6      \* largest configured_parallelism handed to calculate_parallelism
MaxBonusLen == 2  \* longest candidate handed to candidate_match_bonuses
MaxFQLen == 2     \* longest query scored in binary64
MaxFCLen == 4     \* longest candidate scored in binary64

(***************************************************************************)
(* src/score/config.rs                                                     *)
(***************************************************************************)
SCORE_MIN == -1000000000
SCORE_MAX == 1000000000

SCORE_GAP_LEADING == -5
SCORE_GAP_INNER == -10
SCORE_GAP_TRAILING == -5

SCORE_MATCH_CONSECUTIVE == 1000
SCORE_MATCH_SLASH == 900
SCORE_MATCH_WORD == 800
SCORE_MATCH_CAPITAL == 700
SCORE_MATCH_DOT == 600

CANDIDATE_MAX_BYTES == 2048
CANDIDATE_MAX_CHARS == 1024

\* f64 addition on the modelled scores: -inf + x = -inf
fadd(a, b) == IF a = SCORE_MIN \/ b = SCORE_MIN THEN SCORE_MIN ELSE a + b

\* a max that keeps the smaller operand
fmax_as_min(a, b) == IF a <= b THEN a ELSE b

\* f64::max (no NaN arises)
fmax(a, b) == IF a >= b THEN a ELSE b

(***************************************************************************)
(* Characters (std::char)                                                  *)
(***************************************************************************)
Alphabet == {"a", "A", "/", "U+267A"}

\* char::to_lowercase: the lowercase mapping, a sequence of characters
to_lowercase(ch) ==
  CASE ch = "A" -> <<"a">>
    [] ch = "B" -> <<"b">>
    [] ch = "Q" -> <<"q">>
    [] ch = "R" -> <<"r">>
    [] ch = "T" -> <<"t">>
    [] OTHER -> <<ch>>

is_uppercase(ch) == ch \in {"A", "B", "Q", "R", "T"}

is_lowercase(ch) ==
  ch \in {"a", "b", "d", "e", "l", "m", "o", "p", "q", "r", "s", "t", "u", "z"}

\* char::len_utf8
len_utf8(ch) == IF ch = "U+267A" THEN 3 ELSE 1

\* str::len: the length in bytes
str_len(s) ==
  Cardinality({j \in DOMAIN s : len_utf8(s[j]) = 1})
  + 3 * Cardinality({j \in DOMAIN s : len_utf8(s[j]) = 3})

\* str::chars().count()
chars_count(s) == Len(s)

(***************************************************************************)
(* has_match (src/score/mod.rs:99)                                         *)
(***************************************************************************)
\* cand_iter.any(|c2| c2.to_lowercase().eq(c.to_lowercase())), with cand_iter
\* about to yield position p: consumes up to and including the first hit
RECURSIVE cand_iter_any(_, _, _)
cand_iter_any(cand, p, c) ==
  IF p > Len(cand) THEN [found |-> FALSE, next |-> p]
  ELSE IF to_lowercase(cand[p]) = to_lowercase(c) THEN [found |-> TRUE, next |-> p + 1]
  ELSE cand_iter_any(cand, p + 1, c)

\* query.chars().all(...), short-circuiting, from query position k
RECURSIVE query_all(_, _, _, _)
query_all(q, k, cand, p) ==
  IF k > Len(q) THEN TRUE
  ELSE LET r == cand_iter_any(cand, p, q[k])
       IN  IF r.found THEN query_all(q, k + 1, cand, r.next) ELSE FALSE

\* a has_match whose candidate iterator is restarted for every query character
has_match_restart(q, cand) ==
  \A k \in 1..Len(q) : cand_iter_any(cand, 1, q[k]).found

has_match(q, cand) == query_all(q, 1, cand, 1)

(***************************************************************************)
(* Bonuses (src/score/mod.rs:254-286)                                      *)
(***************************************************************************)
is_separator(character) == character \in {" ", "-", "_"}

\* a character_match_bonus that gives nothing after a slash
character_match_bonus_noslash(current, prev) ==
  IF is_uppercase(current) /\ is_lowercase(prev) THEN SCORE_MATCH_CAPITAL
  ELSE CASE prev = "." -> SCORE_MATCH_DOT
         [] is_separator(prev) -> SCORE_MATCH_WORD
         [] OTHER -> 0

\* a character_match_bonus whose slash bonus is twice the configured one
character_match_bonus_steep(current, prev) ==
  IF is_uppercase(current) /\ is_lowercase(prev) THEN SCORE_MATCH_CAPITAL
  ELSE CASE prev = "/" -> 2 * SCORE_MATCH_SLASH
         [] prev = "." -> SCORE_MATCH_DOT
         [] is_separator(prev) -> SCORE_MATCH_WORD
         [] OTHER -> 0

character_match_bonus(current, prev) ==
  IF is_uppercase(current) /\ is_lowercase(prev) THEN SCORE_MATCH_CAPITAL
  ELSE CASE prev = "/" -> SCORE_MATCH_SLASH
         [] prev = "." -> SCORE_MATCH_DOT
         [] is_separator(prev) -> SCORE_MATCH_WORD
         [] OTHER -> 0

\* the closure of the map over candidate.chars(), from the k-th character on:
\* the bonus of the current character, then prev_char = current
RECURSIVE bonuses_map(_, _, _)
bonuses_map(cand, k, prev_char) ==
  IF k > Len(cand) THEN <<>>
  ELSE <<character_match_bonus(cand[k], prev_char)>> \o bonuses_map(cand, k + 1, cand[k])

\* a candidate_match_bonuses whose prev_char is never updated
candidate_match_bonuses_stale(cand) ==
  [j \in 0..(Len(cand) - 1) |-> character_match_bonus(cand[j + 1], "/")]

\* indexed by the 0-based position j
candidate_match_bonuses(cand) ==
  LET collected == bonuses_map(cand, 1, "/")
  IN  [j \in 0..(Len(cand) - 1) |-> collected[j + 1]]

(***************************************************************************)
(* get_lengths (src/score/mod.rs:176)                                      *)
(***************************************************************************)
LengthsOrScore_Score(s) == [tag |-> "Score", score |-> s, q |-> 0, c |-> 0]

LengthsOrScore_Lengths(q, c) == [tag |-> "Lengths", score |-> 0, q |-> q, c |-> c]

\* a get_lengths without the equal-lengths shortcut to SCORE_MAX
get_lengths_noexact(q, cand) ==
  IF str_len(cand) > CANDIDATE_MAX_BYTES \/ str_len(q) = 0
  THEN LengthsOrScore_Score(SCORE_MIN)
  ELSE IF chars_count(cand) > CANDIDATE_MAX_CHARS THEN LengthsOrScore_Score(SCORE_MIN)
  ELSE LengthsOrScore_Lengths(chars_count(q), chars_count(cand))

\* a get_lengths that does not test for the empty query
get_lengths_noempty(q, cand) ==
  IF str_len(cand) > CANDIDATE_MAX_BYTES
  THEN LengthsOrScore_Score(SCORE_MIN)
  ELSE IF chars_count(q) = chars_count(cand) THEN LengthsOrScore_Score(SCORE_MAX)
  ELSE IF chars_count(cand) > CANDIDATE_MAX_CHARS THEN LengthsOrScore_Score(SCORE_MIN)
  ELSE LengthsOrScore_Lengths(chars_count(q), chars_count(cand))

get_lengths(q, cand) ==
  IF str_len(cand) > CANDIDATE_MAX_BYTES \/ str_len(q) = 0
  THEN LengthsOrScore_Score(SCORE_MIN)
  ELSE LET q_len == chars_count(q)
           c_len == chars_count(cand)
       IN  IF q_len = c_len THEN LengthsOrScore_Score(SCORE_MAX)
           ELSE IF c_len > CANDIDATE_MAX_CHARS THEN LengthsOrScore_Score(SCORE_MIN)
           ELSE LengthsOrScore_Lengths(q_len, c_len)

(***************************************************************************)
(* score_internal (src/score/mod.rs:200)                                   *)
(* A ScoreMatrix of shape (q_len, c_len) is a function on                  *)
(* (0..q_len-1) \X (0..c_len-1).                                           *)
(***************************************************************************)
\* a matrix that is one column short
ScoreMatrix_zeros_short(q_len, c_len) ==
  [ij \in (0..(q_len - 1)) \X (0..(c_len - 2)) |-> 0]

ScoreMatrix_zeros(q_len, c_len) ==
  [ij \in (0..(q_len - 1)) \X (0..(c_len - 1)) |-> 0]

\* ndarray's bounds check on m[[i, j]]
in_bounds(m, i, j) == <<i, j>> \in DOMAIN m

\* a cell body that adds the consecutive reward on top of the position bonus
score_cell_stacked(q, cand, q_len, match_bonuses, i, j, prev_score, mats) ==
  LET gap_score == IF i = q_len - 1 THEN SCORE_GAP_TRAILING ELSE SCORE_GAP_INNER
      hit == to_lowercase(q[i + 1]) = to_lowercase(cand[j + 1])
      score ==
        IF ~hit THEN SCORE_MIN
        ELSE IF i = 0 THEN fadd(j * SCORE_GAP_LEADING, match_bonuses[j])
        ELSE IF j # 0
        THEN fmax(fadd(mats.best_score_overall[<<i - 1, j - 1>>], match_bonuses[j]),
                  fadd(fadd(mats.best_score_w_ending[<<i - 1, j - 1>>],
                            SCORE_MATCH_CONSECUTIVE), match_bonuses[j]))
        ELSE SCORE_MIN
      new_prev == IF hit THEN fmax(score, fadd(prev_score, gap_score))
                  ELSE fadd(prev_score, gap_score)
  IN  [prev_score |-> new_prev,
       best_score_overall |-> [mats.best_score_overall EXCEPT ![<<i, j>>] = new_prev],
       best_score_w_ending |-> [mats.best_score_w_ending EXCEPT ![<<i, j>>] = score]]

\* a cell body whose running score ignores the match just scored
score_cell_gap_only(q, cand, q_len, match_bonuses, i, j, prev_score, mats) ==
  LET gap_score == IF i = q_len - 1 THEN SCORE_GAP_TRAILING ELSE SCORE_GAP_INNER
      new_prev == fadd(prev_score, gap_score)
  IN  IF to_lowercase(q[i + 1]) = to_lowercase(cand[j + 1])
      THEN LET score ==
                 IF i = 0 THEN fadd(j * SCORE_GAP_LEADING, match_bonuses[j])
                 ELSE IF j # 0
                 THEN fmax(fadd(mats.best_score_overall[<<i - 1, j - 1>>], match_bonuses[j]),
                           fadd(mats.best_score_w_ending[<<i - 1, j - 1>>],
                                SCORE_MATCH_CONSECUTIVE))
                 ELSE SCORE_MIN
           IN  [prev_score |-> new_prev,
                best_score_overall |->
                  [mats.best_score_overall EXCEPT ![<<i, j>>] = new_prev],
                best_score_w_ending |->
                  [mats.best_score_w_ending EXCEPT ![<<i, j>>] = score]]
      ELSE [prev_score |-> new_prev,
            best_score_overall |->
              [mats.best_score_overall EXCEPT ![<<i, j>>] = new_prev],
            best_score_w_ending |->
              [mats.best_score_w_ending EXCEPT ![<<i, j>>] = SCORE_MIN]]

\* the body of the inner loop for one cell (i, j): the new prev_score and matrices
score_cell(q, cand, q_len, match_bonuses, i, j, prev_score, mats) ==
  LET gap_score == IF i = q_len - 1 THEN SCORE_GAP_TRAILING ELSE SCORE_GAP_INNER
  IN  IF to_lowercase(q[i + 1]) = to_lowercase(cand[j + 1])
      THEN LET score ==
                 IF i = 0 THEN fadd(j * SCORE_GAP_LEADING, match_bonuses[j])
                 ELSE IF j # 0
                 THEN fmax(fadd(mats.best_score_overall[<<i - 1, j - 1>>], match_bonuses[j]),
                           fadd(mats.best_score_w_ending[<<i - 1, j - 1>>],
                                SCORE_MATCH_CONSECUTIVE))
                 ELSE SCORE_MIN
               new_prev == fmax(score, fadd(prev_score, gap_score))
           IN  [prev_score |-> new_prev,
                best_score_overall |->
                  [mats.best_score_overall EXCEPT ![<<i, j>>] = new_prev],
                best_score_w_ending |->
                  [mats.best_score_w_ending EXCEPT ![<<i, j>>] = score]]
      ELSE LET new_prev == fadd(prev_score, gap_score)
           IN  [prev_score |-> new_prev,
                best_score_overall |->
                  [mats.best_score_overall EXCEPT ![<<i, j>>] = new_prev],
                best_score_w_ending |->
                  [mats.best_score_w_ending EXCEPT ![<<i, j>>] = SCORE_MIN]]

\* the loops left by a panic of the checked indexing matrix[(i, j)]: no matrices
index_panic ==
  [prev_score |-> SCORE_MIN, best_score_overall |-> <<>>, best_score_w_ending |-> <<>>]

\* the two nested loops, from cell (i, j) on, in row-major order
RECURSIVE score_loop(_, _, _, _, _, _, _)
score_loop(q, cand, q_len, match_bonuses, i, j, st) ==
  IF i >= Len(q) THEN st
  ELSE IF j >= Len(cand)
  THEN score_loop(q, cand, q_len, match_bonuses, i + 1, 0,
                  [st EXCEPT !.prev_score = SCORE_MIN])
  ELSE IF ~in_bounds(st.best_score_overall, i, j) THEN index_panic
  ELSE score_loop(q, cand, q_len, match_bonuses, i, j + 1,
                  score_cell(q, cand, q_len, match_bonuses, i, j, st.prev_score, st))

score_internal(q, cand, q_len, c_len) ==
  score_loop(q, cand, q_len, candidate_match_bonuses(cand), 0, 0,
             [prev_score |-> SCORE_MIN,
              best_score_overall |-> ScoreMatrix_zeros(q_len, c_len),
              best_score_w_ending |-> ScoreMatrix_zeros(q_len, c_len)])

(***************************************************************************)
(* The same computation in binary64, the type of Score (f64).  A finite    *)
(* value is a sign and a magnitude counted in units of 2^-60, held in      *)
(* three limbs <<hi, mid, lo>> of 24 bits; every constant of config.rs is  *)
(* a whole number of such units, and a sum is rounded to 53 significant    *)
(* bits, ties to even, as the hardware does.                               *)
(***************************************************************************)
LIMB == 16777216

mag_zero == <<0, 0, 0>>

mag_norm(hi, mid, lo) ==
  LET mid2 == mid + (lo \div LIMB)
  IN  <<hi + (mid2 \div LIMB), mid2 % LIMB, lo % LIMB>>

mag_add(a, b) == mag_norm(a[1] + b[1], a[2] + b[2], a[3] + b[3])

\* a - b for a >= b
mag_sub(a, b) ==
  LET lo == a[3] - b[3]
      borrow_lo == IF lo < 0 THEN 1 ELSE 0
      mid == a[2] - b[2] - borrow_lo
      borrow_mid == IF mid < 0 THEN 1 ELSE 0
  IN  <<a[1] - b[1] - borrow_mid, mid + borrow_mid * LIMB, lo + borrow_lo * LIMB>>

mag_lt(a, b) ==
  \/ a[1] < b[1]
  \/ a[1] = b[1] /\ a[2] < b[2]
  \/ a[1] = b[1] /\ a[2] = b[2] /\ a[3] < b[3]

\* the number of significant bits of a limb
limb_bits(n) == CHOOSE k \in 0..30 : n < 2^k /\ (k = 0 \/ n >= 2^(k - 1))

mag_bits(a) ==
  IF a[1] > 0 THEN 48 + limb_bits(a[1])
  ELSE IF a[2] > 0 THEN 24 + limb_bits(a[2])
  ELSE limb_bits(a[3])

\* round to nearest, ties to even, at 53 significant bits
round_ties_even(a) ==
  LET p == mag_bits(a) - 53
  IN  IF p <= 0 THEN a
      ELSE LET unit == 2^p
               rem == a[3] % unit
               down == a[3] - rem
               up == \/ 2 * rem > unit
                     \/ 2 * rem = unit /\ (down \div unit) % 2 = 1
           IN  mag_norm(a[1], a[2], IF up THEN down + unit ELSE down)

f64_finite(neg, mag) == [inf |-> FALSE, neg |-> neg /\ mag # mag_zero, mag |-> mag]

NEG_INFINITY == [inf |-> TRUE, neg |-> TRUE, mag |-> mag_zero]

INFINITY == [inf |-> TRUE, neg |-> FALSE, mag |-> mag_zero]

\* the binary64 value of a constant of config.rs, given in thousandths
to_f64(milli) ==
  CASE milli = SCORE_MIN -> NEG_INFINITY
    [] milli = SCORE_MAX -> INFINITY
    [] milli = 0 -> f64_finite(FALSE, mag_zero)
    [] milli = SCORE_GAP_LEADING -> f64_finite(TRUE, <<20, 8053063, 11408507>>)
    [] milli = SCORE_GAP_INNER -> f64_finite(TRUE, <<40, 16106127, 6039798>>)
    [] milli = SCORE_MATCH_CONSECUTIVE -> f64_finite(FALSE, <<4096, 0, 0>>)
    [] milli = SCORE_MATCH_SLASH -> f64_finite(FALSE, <<3686, 6710886, 6710912>>)
    [] milli = SCORE_MATCH_WORD -> f64_finite(FALSE, <<3276, 13421772, 13421824>>)
    [] milli = SCORE_MATCH_CAPITAL -> f64_finite(FALSE, <<2867, 3355443, 3355392>>)
    [] milli = SCORE_MATCH_DOT -> f64_finite(FALSE, <<2457, 10066329, 10066304>>)

\* f64 +: no NaN arises, +inf never meets -inf
f64_add(x, y) ==
  IF x.inf THEN x
  ELSE IF y.inf THEN y
  ELSE IF x.neg = y.neg THEN f64_finite(x.neg, round_ties_even(mag_add(x.mag, y.mag)))
  ELSE IF mag_lt(x.mag, y.mag)
  THEN f64_finite(y.neg, round_ties_even(mag_sub(y.mag, x.mag)))
  ELSE f64_finite(x.neg, round_ties_even(mag_sub(x.mag, y.mag)))

\* j as f64 * x, for the small j of the model
f64_mul_usize(j, x) ==
  f64_finite(x.neg, round_ties_even(mag_norm(j * x.mag[1], j * x.mag[2], j * x.mag[3])))

f64_lt(x, y) ==
  IF x.inf /\ x.neg THEN ~(y.inf /\ y.neg)
  ELSE IF y.inf /\ ~y.neg THEN ~(x.inf /\ ~x.neg)
  ELSE IF x.inf \/ y.inf THEN FALSE
  ELSE IF x.neg # y.neg THEN x.neg
  ELSE IF x.neg THEN mag_lt(y.mag, x.mag)
  ELSE mag_lt(x.mag, y.mag)

f64_max(x, y) == IF f64_lt(x, y) THEN y ELSE x

\* |x - y| of two finite values, exact, in units of 2^-60
f64_distance(x, y) ==
  IF x.neg # y.neg THEN mag_add(x.mag, y.mag)
  ELSE IF mag_lt(x.mag, y.mag) THEN mag_sub(y.mag, x.mag)
  ELSE mag_sub(x.mag, y.mag)

\* a binary64 cell body that charges nothing for the characters before the first match
score_cell_f64_no_leading(q, cand, q_len, match_bonuses, i, j, prev_score, mats) ==
  LET gap_score == IF i = q_len - 1 THEN to_f64(SCORE_GAP_TRAILING)
                   ELSE to_f64(SCORE_GAP_INNER)
  IN  IF to_lowercase(q[i + 1]) = to_lowercase(cand[j + 1])
      THEN LET score ==
                 IF i = 0
                 THEN to_f64(match_bonuses[j])
                 ELSE IF j # 0
                 THEN f64_max(f64_add(mats.best_score_overall[<<i - 1, j - 1>>],
                                      to_f64(match_bonuses[j])),
                              f64_add(mats.best_score_w_ending[<<i - 1, j - 1>>],
                                      to_f64(SCORE_MATCH_CONSECUTIVE)))
                 ELSE NEG_INFINITY
               new_prev == f64_max(score, f64_add(prev_score, gap_score))
           IN  [prev_score |-> new_prev,
                best_score_overall |->
                  [mats.best_score_overall EXCEPT ![<<i, j>>] = new_prev],
                best_score_w_ending |->
                  [mats.best_score_w_ending EXCEPT ![<<i, j>>] = score]]
      ELSE LET new_prev == f64_add(prev_score, gap_score)
           IN  [prev_score |-> new_prev,
                best_score_overall |->
                  [mats.best_score_overall EXCEPT ![<<i, j>>] = new_prev],
                best_score_w_ending |->
                  [mats.best_score_w_ending EXCEPT ![<<i, j>>] = NEG_INFINITY]]

\* a binary64 cell body that charges the inner gap on the last row too
score_cell_f64_inner_gap(q, cand, q_len, match_bonuses, i, j, prev_score, mats) ==
  LET gap_score == to_f64(SCORE_GAP_INNER)
  IN  IF to_lowercase(q[i + 1]) = to_lowercase(cand[j + 1])
      THEN LET score ==
                 IF i = 0
                 THEN f64_add(f64_mul_usize(j, to_f64(SCORE_GAP_LEADING)),
                              to_f64(match_bonuses[j]))
                 ELSE IF j # 0
                 THEN f64_max(f64_add(mats.best_score_overall[<<i - 1, j - 1>>],
                                      to_f64(match_bonuses[j])),
                              f64_add(mats.best_score_w_ending[<<i - 1, j - 1>>],
                                      to_f64(SCORE_MATCH_CONSECUTIVE)))
                 ELSE NEG_INFINITY
               new_prev == f64_max(score, f64_add(prev_score, gap_score))
           IN  [prev_score |-> new_prev,
                best_score_overall |->
                  [mats.best_score_overall EXCEPT ![<<i, j>>] = new_prev],
                best_score_w_ending |->
                  [mats.best_score_w_ending EXCEPT ![<<i, j>>] = score]]
      ELSE LET new_prev == f64_add(prev_score, gap_score)
           IN  [prev_score |-> new_prev,
                best_score_overall |->
                  [mats.best_score_overall EXCEPT ![<<i, j>>] = new_prev],
                best_score_w_ending |->
                  [mats.best_score_w_ending EXCEPT ![<<i, j>>] = NEG_INFINITY]]

\* the inner-loop body in binary64
score_cell_f64(q, cand, q_len, match_bonuses, i, j, prev_score, mats) ==
  LET gap_score == IF i = q_len - 1 THEN to_f64(SCORE_GAP_TRAILING)
                   ELSE to_f64(SCORE_GAP_INNER)
  IN  IF to_lowercase(q[i + 1]) = to_lowercase(cand[j + 1])
      THEN LET score ==
                 IF i = 0
                 THEN f64_add(f64_mul_usize(j, to_f64(SCORE_GAP_LEADING)),
                              to_f64(match_bonuses[j]))
                 ELSE IF j # 0
                 THEN f64_max(f64_add(mats.best_score_overall[<<i - 1, j - 1>>],
                                      to_f64(match_bonuses[j])),
                              f64_add(mats.best_score_w_ending[<<i - 1, j - 1>>],
                                      to_f64(SCORE_MATCH_CONSECUTIVE)))
                 ELSE NEG_INFINITY
               new_prev == f64_max(score, f64_add(prev_score, gap_score))
           IN  [prev_score |-> new_prev,
                best_score_overall |->
                  [mats.best_score_overall EXCEPT ![<<i, j>>] = new_prev],
                best_score_w_ending |->
                  [mats.best_score_w_ending EXCEPT ![<<i, j>>] = score]]
      ELSE LET new_prev == f64_add(prev_score, gap_score)
           IN  [prev_score |-> new_prev,
                best_score_overall |->
                  [mats.best_score_overall EXCEPT ![<<i, j>>] = new_prev],
                best_score_w_ending |->
                  [mats.best_score_w_ending EXCEPT ![<<i, j>>] = NEG_INFINITY]]

RECURSIVE score_loop_f64(_, _, _, _, _, _, _)
score_loop_f64(q, cand, q_len, match_bonuses, i, j, st) ==
  IF i >= Len(q) THEN st
  ELSE IF j >= Len(cand)
  THEN score_loop_f64(q, cand, q_len, match_bonuses, i + 1, 0,
                      [st EXCEPT !.prev_score = NEG_INFINITY])
  ELSE IF ~in_bounds(st.best_score_overall, i, j) THEN index_panic
  ELSE score_loop_f64(q, cand, q_len, match_bonuses, i, j + 1,
                      score_cell_f64(q, cand, q_len, match_bonuses, i, j, st.prev_score, st))

score_internal_f64(q, cand, q_len, c_len) ==
  score_loop_f64(q, cand, q_len, candidate_match_bonuses(cand), 0, 0,
                 [prev_score |-> NEG_INFINITY,
                  best_score_overall |->
                    [ij \in DOMAIN ScoreMatrix_zeros(q_len, c_len) |-> to_f64(0)],
                  best_score_w_ending |->
                    [ij \in DOMAIN ScoreMatrix_zeros(q_len, c_len) |-> to_f64(0)]])

(***************************************************************************)
(* score_inner, locate_inner (src/score/mod.rs:114, 132)                   *)
(* A call returns [status, value]: status "panic" is an abort of the       *)
(* thread (an index out of the matrix, or an overflowing subtraction).     *)
(***************************************************************************)
ScoreResult_with_score(candidate_index, score) ==
  [candidate_index |-> candidate_index, score |-> score]

\* a with_score whose mask has one bit per byte of a three-byte character
LocateResult_with_score_bytes(candidate_index, candidate_size, score) ==
  [candidate_index |-> candidate_index, score |-> score,
   match_mask |-> [j \in 1..(3 * candidate_size) |-> FALSE]]

LocateResult_with_score(candidate_index, candidate_size, score) ==
  [candidate_index |-> candidate_index, score |-> score,
   match_mask |-> [j \in 1..candidate_size |-> FALSE]]

Returned(v) == [status |-> "ok", value |-> v]

Panicked(v) == [status |-> "panic", value |-> v]

\* a - 1 on usize: at 0 the debug build aborts on the overflow and the release
\* build wraps to usize::MAX, an index no matrix has; NoIndex stands for both
NoIndex == -1

usize_pred(a) == IF a >= 1 THEN a - 1 ELSE NoIndex

score_inner(q, cand, index) ==
  LET l == get_lengths(q, cand)
  IN  IF l.tag = "Score" THEN Returned(ScoreResult_with_score(index, l.score))
      ELSE LET mats == score_internal(q, cand, l.q, l.c)
               i == usize_pred(l.q)
               j == usize_pred(l.c)
           IN  IF in_bounds(mats.best_score_overall, i, j)
               THEN Returned(ScoreResult_with_score(index, mats.best_score_overall[<<i, j>>]))
               ELSE Panicked(ScoreResult_with_score(index, SCORE_MIN))

\* the inner-loop body without its break: the walk goes on along the row
walk_step_nobreak(mats, i, j, mask) ==
  IF /\ mats.best_score_w_ending[<<i, j>>] # SCORE_MIN
     /\ mats.best_score_w_ending[<<i, j>>] = mats.best_score_overall[<<i, j>>]
  THEN [mask |-> [mask EXCEPT ![j + 1] = TRUE], brk |-> FALSE]
  ELSE [mask |-> mask, brk |-> FALSE]

\* the inner-loop body of the backward walk at cell (i, j), after j was
\* decremented: a match on an optimal path sets bit j and breaks
walk_step(mats, i, j, mask) ==
  IF /\ mats.best_score_w_ending[<<i, j>>] # SCORE_MIN
     /\ mats.best_score_w_ending[<<i, j>>] = mats.best_score_overall[<<i, j>>]
  THEN [mask |-> [mask EXCEPT ![j + 1] = TRUE], brk |-> TRUE]
  ELSE [mask |-> mask, brk |-> FALSE]

\* the nested while loops of locate_inner.  q_left / c_left are the characters
\* query_iter / cand_iter still hold; inner tells whether the inner loop runs.
\* The mask has c_len bits, so a j inside the matrix is inside the mask.
RECURSIVE locate_walk(_, _, _, _, _, _, _)
locate_walk(mats, i, j, q_left, c_left, inner, mask) ==
  IF ~inner
  THEN IF q_left = 0 THEN Returned(mask)
       ELSE locate_walk(mats, usize_pred(i), j, q_left - 1, c_left, TRUE, mask)
  ELSE IF c_left = 0 THEN locate_walk(mats, i, j, q_left, c_left, FALSE, mask)
  ELSE LET j1 == usize_pred(j)
       IN  IF ~in_bounds(mats.best_score_w_ending, i, j1) THEN Panicked(mask)
           ELSE LET s == walk_step(mats, i, j1, mask)
                IN  locate_walk(mats, i, j1, q_left, c_left - 1, ~s.brk, s.mask)

\* a locate_inner that reads its score from best_score_w_ending
locate_inner_w_ending(q, cand, index) ==
  LET candidate_chars == chars_count(cand)
      l == get_lengths(q, cand)
  IN  IF l.tag = "Score"
      THEN LET out == LocateResult_with_score(index, candidate_chars, l.score)
           IN  IF l.score = SCORE_MAX
               THEN Returned([out EXCEPT !.match_mask = [j \in 1..candidate_chars |-> TRUE]])
               ELSE Returned(out)
      ELSE LET mats == score_internal(q, cand, l.q, l.c)
               i == usize_pred(l.q)
               j == usize_pred(l.c)
           IN  IF ~in_bounds(mats.best_score_overall, i, j)
               THEN Panicked(LocateResult_with_score(index, candidate_chars, SCORE_MIN))
               ELSE LET out == LocateResult_with_score(index, candidate_chars,
                                                       mats.best_score_w_ending[<<i, j>>])
                        w == locate_walk(mats, l.q, l.c, l.q, l.c, FALSE, out.match_mask)
                    IN  [status |-> w.status,
                         value |-> [out EXCEPT !.match_mask = w.value]]

locate_inner(q, cand, index) ==
  LET candidate_chars == chars_count(cand)
      l == get_lengths(q, cand)
  IN  IF l.tag = "Score"
      THEN LET out == LocateResult_with_score(index, candidate_chars, l.score)
           IN  IF l.score = SCORE_MAX
               THEN Returned([out EXCEPT !.match_mask = [j \in 1..candidate_chars |-> TRUE]])
               ELSE Returned(out)
      ELSE LET mats == score_internal(q, cand, l.q, l.c)
               i == usize_pred(l.q)
               j == usize_pred(l.c)
           IN  IF ~in_bounds(mats.best_score_overall, i, j)
               THEN Panicked(LocateResult_with_score(index, candidate_chars, SCORE_MIN))
               ELSE LET out == LocateResult_with_score(index, candidate_chars,
                                                       mats.best_score_overall[<<i, j>>])
                        w == locate_walk(mats, l.q, l.c, l.q, l.c, FALSE, out.match_mask)
                    IN  [status |-> w.status,
                         value |-> [out EXCEPT !.match_mask = w.value]]

\* pub fn score / pub fn locate
score(q, cand) == score_inner(q, cand, 0)

locate(q, cand) == locate_inner(q, cand, 0)

\* score(q, cand).score in binary64, with the status of the call
score_f64(q, cand) ==
  LET l == get_lengths(q, cand)
  IN  IF l.tag = "Score" THEN Returned(to_f64(l.score))
      ELSE LET mats == score_internal_f64(q, cand, l.q, l.c)
               i == usize_pred(l.q)
               j == usize_pred(l.c)
           IN  IF in_bounds(mats.best_score_overall, i, j)
               THEN Returned(mats.best_score_overall[<<i, j>>])
               ELSE Panicked(NEG_INFINITY)

(***************************************************************************)
(* Ordering of results (src/score/mod.rs:45-93)                            *)
(***************************************************************************)
\* a partial_cmp without its reverse(): the lower score sorts first
result_lt_unreversed(a, b) == a.score < b.score

\* a < b through partial_cmp: the score comparison, reversed
result_lt(a, b) == a.score > b.score

(***************************************************************************)
(* search_worker, search_serial (src/search/mod.rs)                        *)
(***************************************************************************)
search_fn_call(fn, q, cand, index) ==
  IF fn = "score_inner" THEN score_inner(q, cand, index) ELSE locate_inner(q, cand, index)

\* r goes before the first element it is less than: equal scores keep their order
RECURSIVE insert_stable(_, _)
insert_stable(sorted, r) ==
  IF sorted = <<>> THEN <<r>>
  ELSE IF result_lt(r, Head(sorted)) THEN <<r>> \o sorted
  ELSE <<Head(sorted)>> \o insert_stable(Tail(sorted), r)

RECURSIVE sort_stable(_, _)
sort_stable(unsorted, sorted) ==
  IF unsorted = <<>> THEN sorted
  ELSE sort_stable(Tail(unsorted), insert_stable(sorted, Head(unsorted)))

\* the scan of the shard from its position k on: has_match, then search_fn
RECURSIVE worker_scan(_, _, _, _, _, _)
worker_scan(shard, k, q, offset, fn, out) ==
  IF k > Len(shard) THEN Returned(out)
  ELSE IF has_match(q, shard[k])
  THEN LET r == search_fn_call(fn, q, shard[k], offset + (k - 1))
       IN  IF r.status = "panic" THEN Panicked(out)
           ELSE worker_scan(shard, k + 1, q, offset, fn, Append(out, r.value))
  ELSE worker_scan(shard, k + 1, q, offset, fn, out)

search_worker(shard, q, offset, fn) ==
  LET scanned == worker_scan(shard, 1, q, offset, fn, <<>>)
  IN  IF scanned.status = "panic" THEN scanned
      ELSE Returned(sort_stable(scanned.value, <<>>))

search_serial(q, cands) == search_worker(cands, q, 0, "score_inner")

locate_serial(q, cands) == search_worker(cands, q, 0, "locate_inner")

(***************************************************************************)
(* calculate_parallelism, ceil_div (src/search/parallel.rs:92-118)         *)
(***************************************************************************)
ceil_div(a, b) == (a + b - 1) \div b

usize_min(a, b) == IF a <= b THEN a ELSE b

usize_max(a, b) == IF a >= b THEN a ELSE b

\* a calculate_parallelism without the empty-query shortcut
calculate_parallelism_noempty(candidate_count, configured_parallelism, empty_query) ==
  LET ramped_parallelism ==
        IF candidate_count < 17 THEN ceil_div(candidate_count, 4)
        ELSE IF candidate_count > 32 THEN ceil_div(candidate_count, 8)
        ELSE 4
  IN  usize_max(usize_min(usize_min(configured_parallelism, ramped_parallelism),
                          candidate_count), 1)

\* a calculate_parallelism without the final max(1)
calculate_parallelism_nomax(candidate_count, configured_parallelism, empty_query) ==
  IF empty_query THEN 1
  ELSE LET ramped_parallelism ==
             IF candidate_count < 17 THEN ceil_div(candidate_count, 4)
             ELSE IF candidate_count > 32 THEN ceil_div(candidate_count, 8)
             ELSE 4
       IN  usize_min(usize_min(configured_parallelism, ramped_parallelism), candidate_count)

calculate_parallelism(candidate_count, configured_parallelism, empty_query) ==
  IF empty_query THEN 1
  ELSE LET ramped_parallelism ==
             IF candidate_count < 17 THEN ceil_div(candidate_count, 4)
             ELSE IF candidate_count > 32 THEN ceil_div(candidate_count, 8)
             ELSE 4
       IN  usize_max(usize_min(usize_min(configured_parallelism, ramped_parallelism),
                               candidate_count), 1)

(***************************************************************************)
(* itertools::kmerge over the received batches (src/search/parallel.rs:88) *)
(* The heap is a sequence of non-empty batches; heap[k + 1] is the code's  *)
(* heap[k], and the head of a batch is its first element.                  *)
(***************************************************************************)
heap_less_than(a, b) == result_lt(Head(a), Head(b))

heap_swap(heap, a, b) == [heap EXCEPT ![a + 1] = heap[b + 1], ![b + 1] = heap[a + 1]]

RECURSIVE sift_loop(_, _, _)
sift_loop(heap, pos, child) ==
  IF pos < Len(heap) /\ child < Len(heap)
  THEN LET right == child + 1
           c == IF right < Len(heap) /\ heap_less_than(heap[right + 1], heap[child + 1])
                THEN right ELSE child
       IN  IF ~heap_less_than(heap[c + 1], heap[pos + 1]) THEN heap
           ELSE sift_loop(heap_swap(heap, pos, c), c, 2 * c + 1)
  ELSE heap

sift_down(heap, index) == sift_loop(heap, index, 2 * index + 1)

\* for i in (0..len / 2).rev()
RECURSIVE heapify_from(_, _)
heapify_from(heap, i) ==
  IF i < 0 THEN heap ELSE heapify_from(sift_down(heap, i), i - 1)

heapify(heap) == heapify_from(heap, (Len(heap) \div 2) - 1)

\* Vec::swap_remove(0)
swap_remove_first(heap) ==
  IF Len(heap) = 1 THEN <<>>
  ELSE <<heap[Len(heap)]>> \o SubSeq(heap, 2, Len(heap) - 1)

\* KMergeBy::next until the heap is empty, collected
RECURSIVE kmerge_collect(_, _)
kmerge_collect(heap, out) ==
  IF heap = <<>> THEN out
  ELSE LET first == heap[1]
           popped == IF Len(first) > 1 THEN [heap EXCEPT ![1] = Tail(first)]
                     ELSE swap_remove_first(heap)
       IN  kmerge_collect(sift_down(popped, 0), Append(out, Head(first)))

\* kmerge(receiver).collect(): empty batches make no HeadTail
kmerge(batches) ==
  kmerge_collect(heapify(SelectSeq(batches, LAMBDA b : b # <<>>)), <<>>)

(***************************************************************************)
(* Inputs                                                                  *)
(***************************************************************************)
StringsUpTo(n) == UNION {[1..k -> Alphabet] : k \in 0..n}

Repeat(ch, n) == [j \in 1..n |-> ch]

Queries == StringsUpTo(MaxQLen)

Candidates == StringsUpTo(MaxCLen)

\* candidates beyond a cap: too many characters, or too many bytes in few characters
OversizedCandidates ==
  {Repeat(ch, CANDIDATE_MAX_CHARS + k) : ch \in Alphabet, k \in 1..MaxOver}
  \cup {Repeat("U+267A", (CANDIDATE_MAX_BYTES \div 3) + k) : k \in 1..MaxOver}
  \cup {Repeat("a", CANDIDATE_MAX_BYTES + k) : k \in 1..MaxOver}

\* the queries tried against an oversized candidate: short ones, and ones of
\* the candidate's own character count
OversizedQueries(cand) == StringsUpTo(1) \cup {Repeat(ch, Len(cand)) : ch \in Alphabet}

SearchQueries == {<<>>, <<"a">>, <<"a", "/">>}

CandidatePool == {<<"a", "/">>, <<"/", "a", "A">>}

CandidateSlices == UNION {[1..n -> CandidatePool] : n \in 0..MaxN}

NoResult == ScoreResult_with_score(0, SCORE_MIN)

(***************************************************************************)
(* Direct calls of the surface operations has_match, score, locate         *)
(***************************************************************************)
SearchIdle ==
  /\ candidates = <<>>
  /\ parallelism = 0
  /\ search_fn = "score_inner"
  /\ pc = "off"
  /\ remaining_candidates = 0
  /\ thread_offset = 0
  /\ rest = <<>>
  /\ threads = <<>>
  /\ channel = <<>>
  /\ output = <<>>
  /\ run = 1
  /\ previous = <<>>

CallIdle ==
  /\ op = "none"
  /\ status = "idle"
  /\ matched = FALSE
  /\ result = NoResult

\* no unit call is in progress
UnitIdle ==
  /\ helper = "none"
  /\ args = <<>>
  /\ ret = <<>>

InitScore ==
  /\ query \in Queries
  /\ candidate \in Candidates
  /\ CallIdle
  /\ SearchIdle
  /\ UnitIdle

InitCaps ==
  /\ candidate \in OversizedCandidates
  /\ query \in OversizedQueries(candidate)
  /\ CallIdle
  /\ SearchIdle
  /\ UnitIdle

CallHasMatch ==
  /\ op = "none"
  /\ pc = "off"
  /\ op' = "has_match"
  /\ status' = "ok"
  /\ matched' = has_match(query, candidate)
  /\ UNCHANGED <<query, candidate, result>>
  /\ UNCHANGED <<searchVars, unitVars>>

CallScore ==
  /\ op = "none"
  /\ pc = "off"
  /\ LET r == score(query, candidate)
     IN  /\ status' = r.status
         /\ result' = r.value
  /\ op' = "score"
  /\ UNCHANGED <<query, candidate, matched>>
  /\ UNCHANGED <<searchVars, unitVars>>

CallLocate ==
  /\ op = "none"
  /\ pc = "off"
  /\ LET r == locate(query, candidate)
     IN  /\ status' = r.status
         /\ result' = r.value
  /\ op' = "locate"
  /\ UNCHANGED <<query, candidate, matched>>
  /\ UNCHANGED <<searchVars, unitVars>>

NextScore == CallHasMatch \/ CallScore \/ CallLocate

NextCaps == CallScore \/ CallLocate

SpecScore == InitScore /\ [][NextScore]_vars

SpecCaps == InitCaps /\ [][NextCaps]_vars

(***************************************************************************)
(* search_internal (src/search/parallel.rs:42-90), called through          *)
(* search_score or search_locate                                           *)
(***************************************************************************)
\* let parallelism = calculate_parallelism(...)
Par == calculate_parallelism(Len(candidates), parallelism, str_len(query) = 0)

\* a per_thread_count that rounds down
per_thread_count_floor == Len(candidates) \div Par

per_thread_count == ceil_div(Len(candidates), Par)

\* an offset that is not moved past the shard just handed out
advance_offset_stuck(offset, splitted_len) == offset

\* thread_offset += splitted_len
advance_offset(offset, splitted_len) == offset + splitted_len

Init ==
  /\ query \in SearchQueries
  /\ candidates \in CandidateSlices
  /\ parallelism \in 0..MaxPar
  /\ search_fn \in {"score_inner", "locate_inner"}
  /\ pc = "call"
  /\ remaining_candidates = 0
  /\ thread_offset = 0
  /\ rest = <<>>
  /\ threads = <<>>
  /\ channel = <<>>
  /\ output = <<>>
  /\ run = 1
  /\ previous = <<>>
  /\ candidate = <<>>
  /\ CallIdle
  /\ UnitIdle

\* parallelism < 2: the whole slice is searched on the calling thread
SearchSingle ==
  /\ pc = "call"
  /\ Par < 2
  /\ LET r == search_worker(candidates, query, 0, search_fn)
     IN  IF r.status = "panic"
         THEN pc' = "panic" /\ output' = output
         ELSE pc' = "done" /\ output' = r.value
  /\ UNCHANGED <<candidates, parallelism, search_fn, remaining_candidates, thread_offset,
                 rest, threads, channel, run, previous, query>>
  /\ UNCHANGED <<scoreVars, unitVars>>

\* parallelism >= 2: the scope is entered
ScopeEnter ==
  /\ pc = "call"
  /\ Par >= 2
  /\ pc' = "spawn"
  /\ remaining_candidates' = Len(candidates)
  /\ thread_offset' = 0
  /\ rest' = candidates
  /\ UNCHANGED <<candidates, parallelism, search_fn, threads, channel, output, run,
                 previous, query>>
  /\ UNCHANGED <<scoreVars, unitVars>>

\* one iteration of `while remaining_candidates > 0`
Spawn ==
  /\ pc = "spawn"
  /\ remaining_candidates > 0
  /\ LET full == remaining_candidates >= per_thread_count
         remaining1 == IF full THEN remaining_candidates - per_thread_count ELSE 0
         \* the else branch assigns 0 and then yields the variable just assigned
         split == IF full THEN per_thread_count ELSE remaining1
     IN  /\ split <= Len(rest)
         /\ remaining_candidates' = remaining1
         /\ threads' = Append(threads, [shard |-> SubSeq(rest, 1, split),
                                        offset |-> thread_offset,
                                        state |-> "running"])
         /\ thread_offset' = advance_offset(thread_offset, split)
         /\ rest' = SubSeq(rest, split + 1, Len(rest))
  /\ UNCHANGED <<candidates, parallelism, search_fn, pc, channel, output, run, previous,
                 query>>
  /\ UNCHANGED <<scoreVars, unitVars>>

\* the loop ends: drop(sender), and the scope starts to wait for its threads
SpawnEnd ==
  /\ pc = "spawn"
  /\ remaining_candidates = 0
  /\ pc' = "join"
  /\ UNCHANGED <<candidates, parallelism, search_fn, remaining_candidates, thread_offset,
                 rest, threads, channel, output, run, previous, query>>
  /\ UNCHANGED <<scoreVars, unitVars>>

\* a spawned thread runs search_worker on its shard and sends the batch; the
\* send blocks while the channel holds `parallelism` batches
WorkerSend(t) ==
  /\ threads[t].state = "running"
  /\ LET r == search_worker(threads[t].shard, query, threads[t].offset, search_fn)
     IN  IF r.status = "panic"
         THEN /\ threads' = [threads EXCEPT ![t].state = "panicked"]
              /\ channel' = channel
         ELSE /\ Len(channel) < Par
              /\ threads' = [threads EXCEPT ![t].state = "finished"]
              /\ channel' = Append(channel, r.value)
  /\ UNCHANGED <<candidates, parallelism, search_fn, pc, remaining_candidates,
                 thread_offset, rest, output, run, previous, query>>
  /\ UNCHANGED <<scoreVars, unitVars>>

Worker == \E t \in DOMAIN threads : WorkerSend(t)

\* crossbeam::scope returns once every spawned thread has ended
ScopeJoin ==
  /\ pc = "join"
  /\ \A t \in DOMAIN threads : threads[t].state # "running"
  /\ pc' = "merge"
  /\ UNCHANGED <<candidates, parallelism, search_fn, remaining_candidates, thread_offset,
                 rest, threads, channel, output, run, previous, query>>
  /\ UNCHANGED <<scoreVars, unitVars>>

\* kmerge(receiver), collected by search_score / search_locate
Collect ==
  /\ pc = "merge"
  /\ output' = kmerge(channel)
  /\ channel' = <<>>
  /\ pc' = "done"
  /\ UNCHANGED <<candidates, parallelism, search_fn, remaining_candidates, thread_offset,
                 rest, threads, run, previous, query>>
  /\ UNCHANGED <<scoreVars, unitVars>>

\* the caller runs the same search a second time
Repeat_search ==
  /\ pc = "done"
  /\ run = 1
  /\ run' = 2
  /\ previous' = output
  /\ pc' = "call"
  /\ remaining_candidates' = 0
  /\ thread_offset' = 0
  /\ rest' = <<>>
  /\ threads' = <<>>
  /\ channel' = <<>>
  /\ output' = <<>>
  /\ UNCHANGED <<candidates, parallelism, search_fn, query>>
  /\ UNCHANGED <<scoreVars, unitVars>>

Next ==
  \/ SearchSingle
  \/ ScopeEnter
  \/ Spawn
  \/ SpawnEnd
  \/ Worker
  \/ ScopeJoin
  \/ Collect
  \/ Repeat_search

Spec == Init /\ [][Next]_vars

(***************************************************************************)
(* Unit calls: calculate_parallelism (src/search/parallel.rs:92),          *)
(* candidate_match_bonuses (src/score/mod.rs:254) and the comparisons of   *)
(* tests::score_pref_word_start (src/score/mod.rs:358)                     *)
(***************************************************************************)
BonusAlphabet == {"a", "A", "/", ".", " ", "-", "_", "U+267A"}

BonusCandidates == UNION {[1..n -> BonusAlphabet] : n \in 0..MaxBonusLen}

amor == <<"a", "m", "o", "r">>
qart == <<"q", "a", "r", "t">>
app_models_order ==
  <<"a", "p", "p", "/", "m", "o", "d", "e", "l", "s", "/", "o", "r", "d", "e", "r">>
app_models_zrder ==
  <<"a", "p", "p", "/", "m", "o", "d", "e", "l", "s", "/", "z", "r", "d", "e", "r">>
app_models_dash_order ==
  <<"a", "p", "p", " ", "m", "o", "d", "e", "l", "s", "-", "o", "r", "d", "e", "r">>
app_models_space_zrder ==
  <<"a", "p", "p", " ", "m", "o", "d", "e", "l", "s", " ", "z", "r", "d", "e", "r">>
QuArTz == <<"Q", "u", "A", "r", "T", "z">>
QuaRTz == <<"Q", "u", "a", "R", "T", "z">>

\* the three assertions of score_pref_word_start: query, preferred, other
PrefWordStart ==
  { <<amor, app_models_order, app_models_zrder>>,
    <<amor, app_models_dash_order, app_models_space_zrder>>,
    <<qart, QuArTz, QuaRTz>> }

FloatAlphabet == {"a", "/", "."}

FloatQueries == UNION {[1..n -> FloatAlphabet] : n \in 1..MaxFQLen}

FloatCandidates == UNION {[1..n -> FloatAlphabet] : n \in 1..MaxFCLen}

InitUnit ==
  /\ helper \in {"calculate_parallelism", "candidate_match_bonuses", "score_pref_word_start",
                 "score"}
  /\ args \in CASE helper = "calculate_parallelism" ->
                     (0..MaxCount) \X (0..MaxConf) \X BOOLEAN
                [] helper = "candidate_match_bonuses" ->
                     {<<cand>> : cand \in BonusCandidates}
                [] helper = "score" -> FloatQueries \X FloatCandidates
                [] OTHER -> PrefWordStart
  /\ ret = <<>>
  /\ query = <<>>
  /\ candidate = <<>>
  /\ CallIdle
  /\ SearchIdle

CallCalculateParallelism ==
  /\ helper = "calculate_parallelism"
  /\ ret = <<>>
  /\ ret' = <<calculate_parallelism(args[1], args[2], args[3])>>
  /\ UNCHANGED <<query, helper, args, scoreVars, searchVars>>

CallCandidateMatchBonuses ==
  /\ helper = "candidate_match_bonuses"
  /\ ret = <<>>
  /\ ret' = <<candidate_match_bonuses(args[1])>>
  /\ UNCHANGED <<query, helper, args, scoreVars, searchVars>>

\* one assertion of the test: both scores are computed, then compared
CallScorePrefWordStart ==
  /\ helper = "score_pref_word_start"
  /\ ret = <<>>
  /\ ret' = <<score(args[1], args[2]), score(args[1], args[3])>>
  /\ UNCHANGED <<query, helper, args, scoreVars, searchVars>>

\* score(query, candidate), its Score kept as the binary64 value it is
CallScoreBinary64 ==
  /\ helper = "score"
  /\ ret = <<>>
  /\ ret' = <<score_f64(args[1], args[2])>>
  /\ UNCHANGED <<query, helper, args, scoreVars, searchVars>>

NextUnit ==
  \/ CallCalculateParallelism
  \/ CallCandidateMatchBonuses
  \/ CallScorePrefWordStart
  \/ CallScoreBinary64

SpecUnit == InitUnit /\ [][NextUnit]_vars

(***************************************************************************)
(* Properties of the surface operations                                    *)
(***************************************************************************)
Finite(s) == s # SCORE_MIN /\ s # SCORE_MAX

\* the characters of q occur in cand in order under per-character lowercase equality
IsSubsequence(q, cand) ==
  \E f \in [1..Len(q) -> 1..Len(cand)] :
    /\ \A k \in 1..(Len(q) - 1) : f[k] < f[k + 1]
    /\ \A k \in 1..Len(q) : to_lowercase(q[k]) = to_lowercase(cand[f[k]])

\* the 0-based positions whose mask bit is set
MaskPositions(mask) == {j \in 0..(Len(mask) - 1) : mask[j + 1]}

\* the k-th smallest (k from 0) of a set of positions
KthPosition(pos, k) == CHOOSE p \in pos : Cardinality({x \in pos : x < p}) = k

\* the value the scoring rules give to placing query character i on position
\* KthPosition(pos, i): leading gap and bonus for the first, then per character
\* the better of bonus and consecutive reward when adjacent, else bonus and
\* inner gaps, and trailing gaps after the last
RECURSIVE PlacementInner(_, _, _)
PlacementInner(bonus, pos, i) ==
  IF i >= Cardinality(pos) THEN 0
  ELSE LET p == KthPosition(pos, i)
           before == KthPosition(pos, i - 1)
       IN  (IF p = before + 1 THEN fmax(bonus[p], SCORE_MATCH_CONSECUTIVE)
            ELSE bonus[p] + (p - before - 1) * SCORE_GAP_INNER)
           + PlacementInner(bonus, pos, i + 1)

PlacementScore(cand, pos) ==
  LET bonus == candidate_match_bonuses(cand)
      first == KthPosition(pos, 0)
      last == KthPosition(pos, Cardinality(pos) - 1)
  IN  first * SCORE_GAP_LEADING + bonus[first]
      + PlacementInner(bonus, pos, 1)
      + (Len(cand) - 1 - last) * SCORE_GAP_TRAILING

\* C1: whenever has_match(q, c) is false, score(q, c) returns SCORE_MIN, also
\* when q and c have the same number of characters.
C1_NoMatchScoresMin ==
  (op = "score" /\ status = "ok" /\ ~has_match(query, candidate))
    => result.score = SCORE_MIN

\* C2: score and locate return for every pair of strings; neither aborts on an
\* index outside the matrix or on an underflowing subtraction.
C2_ScoreLocateTotal ==
  op \in {"score", "locate"} => status = "ok"

\* C7: has_match(q, c) is true exactly when the characters of q occur in c in
\* order under per-character lowercase equality; the empty query matches every
\* candidate and a non-empty query never matches the empty candidate.
C7_HasMatchIsSubsequence ==
  op = "has_match" =>
    /\ matched <=> IsSubsequence(query, candidate)
    /\ query = <<>> => matched
    /\ (query # <<>> /\ candidate = <<>>) => ~matched

C7_Witness ==
  /\ op = "has_match"
  /\ matched
  /\ Len(query) = 2
  /\ Len(candidate) = 3
  /\ to_lowercase(candidate[2]) # to_lowercase(query[2])
  /\ candidate[1] # query[1]

\* C8: for a locate with a finite score, the set mask bits are a placement of
\* the query characters whose value under the scoring rules is the returned score.
C8_MaskAttainsScore ==
  (op = "locate" /\ status = "ok" /\ Finite(result.score)) =>
    /\ Cardinality(MaskPositions(result.match_mask)) = chars_count(query)
    /\ PlacementScore(candidate, MaskPositions(result.match_mask)) = result.score

\* C9: for has_match(q, c) and a finite locate score, exactly char_length(q)
\* mask bits are set, and the candidate characters at the set positions, read
\* in increasing order, are q under case folding.
C9_MaskSpellsQuery ==
  (op = "locate" /\ status = "ok" /\ has_match(query, candidate) /\ Finite(result.score)) =>
    LET pos == MaskPositions(result.match_mask)
    IN  /\ Cardinality(pos) = chars_count(query)
        /\ \A k \in 0..(chars_count(query) - 1) :
             to_lowercase(candidate[KthPosition(pos, k) + 1]) = to_lowercase(query[k + 1])

C9_Witness ==
  /\ op = "locate"
  /\ status = "ok"
  /\ has_match(query, candidate)
  /\ Finite(result.score)
  /\ chars_count(query) = 2
  /\ MaskPositions(result.match_mask) = {0, 2}

\* C10: a candidate longer than CANDIDATE_MAX_BYTES bytes or CANDIDATE_MAX_CHARS
\* characters scores SCORE_MIN against every query, also against a query of the
\* candidate's own character count.
C10_OversizedScoresMin ==
  (op = "score" /\ status = "ok"
     /\ (str_len(candidate) > CANDIDATE_MAX_BYTES
           \/ chars_count(candidate) > CANDIDATE_MAX_CHARS))
    => result.score = SCORE_MIN

\* q and cand have the same characters up to letter case
FoldEqual(q, cand) ==
  /\ Len(q) = Len(cand)
  /\ \A k \in 1..Len(q) : to_lowercase(q[k]) = to_lowercase(cand[k])

WithinCaps(cand) ==
  str_len(cand) <= CANDIDATE_MAX_BYTES /\ chars_count(cand) <= CANDIDATE_MAX_CHARS

\* C11: a non-empty string within the caps scores SCORE_MAX against itself and
\* against any string that differs from it only in letter case, and locate
\* then returns SCORE_MAX with every mask bit set.
C11_ExactMatchScoresMax ==
  (op \in {"score", "locate"} /\ query # <<>> /\ WithinCaps(candidate)
     /\ FoldEqual(query, candidate)) =>
    /\ status = "ok"
    /\ result.score = SCORE_MAX
    /\ op = "locate" =>
         /\ Len(result.match_mask) = chars_count(candidate)
         /\ \A j \in DOMAIN result.match_mask : result.match_mask[j]

C11_Witness ==
  /\ op = "locate"
  /\ status = "ok"
  /\ Len(query) = 2
  /\ query # candidate
  /\ FoldEqual(query, candidate)
  /\ result.match_mask = <<TRUE, TRUE>>

\* C12: the empty query scores SCORE_MIN against every candidate, the empty one
\* included, and locate then returns SCORE_MIN with a mask of char_length(c)
\* bits, all clear.
C12_EmptyQueryScoresMin ==
  (op \in {"score", "locate"} /\ query = <<>>) =>
    /\ status = "ok"
    /\ result.score = SCORE_MIN
    /\ op = "locate" =>
         /\ Len(result.match_mask) = chars_count(candidate)
         /\ \A j \in DOMAIN result.match_mask : ~result.match_mask[j]

C12_Witness ==
  /\ op = "locate"
  /\ status = "ok"
  /\ query = <<>>
  /\ Len(candidate) = 3
  /\ result.score = SCORE_MIN
  /\ result.match_mask = <<FALSE, FALSE, FALSE>>

\* C13 as stated: for every q and c with has_match(q, c), c within the caps and
\* different character counts, the score is strictly between SCORE_MIN and
\* SCORE_MAX.
C13_MatchScoresFinite ==
  (op = "score" /\ status = "ok" /\ has_match(query, candidate)
     /\ WithinCaps(candidate) /\ chars_count(query) # chars_count(candidate))
    => (SCORE_MIN < result.score /\ result.score < SCORE_MAX)

\* C13 amended: the same for every non-empty q.
C13_NonEmptyMatchScoresFinite ==
  (op = "score" /\ status = "ok" /\ query # <<>> /\ has_match(query, candidate)
     /\ WithinCaps(candidate) /\ chars_count(query) # chars_count(candidate))
    => (SCORE_MIN < result.score /\ result.score < SCORE_MAX)

C13_Witness ==
  /\ op = "score"
  /\ status = "ok"
  /\ Len(query) = 2
  /\ Len(candidate) = 3
  /\ has_match(query, candidate)
  /\ SCORE_MIN < result.score
  /\ result.score < SCORE_MAX

\* the order-preserving placements of the query on fold-equal candidate characters
Placements(q, cand) ==
  {pos \in SUBSET (0..(Len(cand) - 1)) :
     /\ Cardinality(pos) = Len(q)
     /\ \A k \in 0..(Len(q) - 1) :
          to_lowercase(cand[KthPosition(pos, k) + 1]) = to_lowercase(q[k + 1])}

MatchingIndices == {i \in DOMAIN candidates : has_match(query, candidates[i])}

\* C3: search_score returns as many results as there are candidates that
\* has_match accepts, whatever the parallelism and the shard size.
C3_CountEqualsMatches ==
  (pc = "done" /\ search_fn = "score_inner") => Len(output) = Cardinality(MatchingIndices)

\* C4: search_score returns the sequence the single-threaded search over the
\* whole slice returns: same indices, same scores, same order.
C4_ParallelEqualsSerial ==
  (pc = "done" /\ search_fn = "score_inner") => output = search_serial(query, candidates).value

\* C5: in the returned sequence two results of equal score are in ascending
\* candidate_index order, for every arrival order of the worker batches.
C5_TiesAscendingIndex ==
  pc = "done" =>
    \A a, b \in DOMAIN output :
      (a < b /\ output[a].score = output[b].score)
        => output[a].candidate_index < output[b].candidate_index

\* C6: two executions of search_score on the same query, candidates and
\* parallelism return the same sequence, whatever the thread interleaving.
C6_RepeatIdentical ==
  (pc = "done" /\ run = 2 /\ search_fn = "score_inner") => output = previous

\* C20: whenever locate(q, c) and score(q, c) both return, they carry the same
\* score, and both carry candidate_index 0.
C20_LocateScoreAgree ==
  /\ (op = "locate" /\ status = "ok") =>
       /\ result.candidate_index = 0
       /\ score(query, candidate).status = "ok" =>
            result.score = score(query, candidate).value.score
  /\ (op = "score" /\ status = "ok") =>
       /\ result.candidate_index = 0
       /\ locate(query, candidate).status = "ok" =>
            result.score = locate(query, candidate).value.score

\* locate ran the matrices on a candidate whose last character is not matched
C20_Witness ==
  /\ op = "locate"
  /\ status = "ok"
  /\ query = <<"a">>
  /\ candidate = <<"a", "/">>
  /\ result.score = SCORE_MATCH_SLASH + SCORE_GAP_TRAILING
  /\ result.match_mask = <<TRUE, FALSE>>

\* C15: the sequence returned by search_score / search_locate is in
\* non-increasing score order, whatever the parallelism and the arrival order
\* of the worker batches.
C15_OutputDescending ==
  pc = "done" =>
    \A a \in 1..(Len(output) - 1) : output[a].score >= output[a + 1].score

\* two workers sent batches that each hold both scores, and the merge interleaved them
C15_Witness ==
  /\ pc = "done"
  /\ Len(threads) = 2
  /\ Len(output) = 6
  /\ output[1].score > output[6].score
  /\ output[1].candidate_index > output[2].candidate_index

\* C17: for the empty query search_score returns one result per candidate, each
\* with score SCORE_MIN, in ascending candidate_index order.
C17_EmptyQueryReturnsAll ==
  (pc = "done" /\ search_fn = "score_inner" /\ query = <<>>) =>
    /\ Len(output) = Len(candidates)
    /\ \A a \in DOMAIN output :
         /\ output[a].candidate_index = a - 1
         /\ output[a].score = SCORE_MIN

C17_Witness ==
  /\ pc = "done"
  /\ search_fn = "score_inner"
  /\ query = <<>>
  /\ parallelism = 2
  /\ Len(candidates) = 5
  /\ Len(output) = 5
  /\ output[5].candidate_index = 4

\* the least k with d * k >= n
Ceiling(n, d) == CHOOSE k \in 0..n : d * k >= n /\ d * (k - 1) < n

Minimum(S) == CHOOSE x \in S : \A y \in S : x <= y

Maximum(S) == CHOOSE x \in S : \A y \in S : x >= y

\* C16: calculate_parallelism(N, P0, empty_query) is 1 for the empty query and
\* otherwise max(1, min(P0, ramp, N)), ramp being ceil(N/4) below 17, ceil(N/8)
\* above 32 and 4 in between; so it is at least 1, at most max(1, P0), and 1
\* for every N <= 4.
C16_ParallelismRamp ==
  (helper = "calculate_parallelism" /\ ret # <<>>) =>
    LET N == args[1]
        P0 == args[2]
        ramp == IF N < 17 THEN Ceiling(N, 4) ELSE IF N > 32 THEN Ceiling(N, 8) ELSE 4
        P == ret[1]
    IN  /\ args[3] => P = 1
        /\ ~args[3] => P = Maximum({1, Minimum({P0, ramp, N})})
        /\ P >= 1
        /\ P <= Maximum({1, P0})
        /\ N <= 4 => P = 1

\* a call where the ramp, not the configured value, decides: N = 40 gives 5
C16_Witness ==
  /\ helper = "calculate_parallelism"
  /\ args = <<40, 6, FALSE>>
  /\ ret = <<5>>

\* the bonus the rule gives to a character after prev
BonusRule(current, prev) ==
  IF is_uppercase(current) /\ is_lowercase(prev) THEN SCORE_MATCH_CAPITAL
  ELSE IF prev = "/" THEN SCORE_MATCH_SLASH
  ELSE IF prev = "." THEN SCORE_MATCH_DOT
  ELSE IF prev \in {" ", "-", "_"} THEN SCORE_MATCH_WORD
  ELSE 0

\* C18: for every candidate and position j, bonus[j] follows the rule on the
\* character at j and prev, prev being '/' at j = 0 and the character at j-1
\* otherwise.
C18_BonusRule ==
  (helper = "candidate_match_bonuses" /\ ret # <<>>) =>
    LET cand == args[1]
        bonus == ret[1]
    IN  /\ DOMAIN bonus = 0..(Len(cand) - 1)
        /\ \A j \in 0..(Len(cand) - 1) :
             bonus[j] = BonusRule(cand[j + 1], IF j = 0 THEN "/" ELSE cand[j])

\* a capital after a lowercase letter at position 1, a plain start at position 0
C18_Witness ==
  /\ helper = "candidate_match_bonuses"
  /\ args = << <<"a", "A">> >>
  /\ ret # <<>>
  /\ ret[1][0] = SCORE_MATCH_SLASH
  /\ ret[1][1] = SCORE_MATCH_CAPITAL

\* C19: score("amor", "app/models/order") is above score("amor",
\* "app/models/zrder"): the 'o' right after '/' outranks the 'o' inside a word.
C19_PrefersWordStart ==
  (/\ helper = "score_pref_word_start"
   /\ args = <<amor, app_models_order, app_models_zrder>>
   /\ ret # <<>>) =>
    /\ ret[1].status = "ok"
    /\ ret[2].status = "ok"
    /\ ret[1].value.score > ret[2].value.score

C19_Witness ==
  /\ helper = "score_pref_word_start"
  /\ args = <<amor, app_models_order, app_models_zrder>>
  /\ ret # <<>>
  /\ ret[1].status = "ok"
  /\ ret[1].value.score > SCORE_MIN
  /\ ret[2].value.score > SCORE_MIN
  /\ ret[1].value.score < SCORE_MAX

\* the shards in spawn order, once the spawn loop has ended
ShardsHandedOut == pc \in {"join", "merge", "done"} /\ Par >= 2

\* C21: with P >= 2 the shards are contiguous, pairwise disjoint, of at most
\* ceil(N/P) candidates each, and together cover every index 0..N-1 once.
C21_ShardsPartition ==
  ShardsHandedOut =>
    /\ Len(threads) >= 1
    /\ threads[1].offset = 0
    /\ \A t \in DOMAIN threads :
         /\ Len(threads[t].shard) <= Ceiling(Len(candidates), Par)
         /\ threads[t].shard =
              SubSeq(candidates, threads[t].offset + 1,
                     threads[t].offset + Len(threads[t].shard))
         /\ threads[t].offset + Len(threads[t].shard) =
              IF t < Len(threads) THEN threads[t + 1].offset ELSE Len(candidates)

\* how far the call has come: it grows with every step and is bounded, so a
\* call that can always take a step returns
Progress ==
  100 * run
  + 10 * (CASE pc = "call" -> 0 [] pc = "spawn" -> 1 [] pc = "join" -> 2
            [] pc = "merge" -> 3 [] OTHER -> 4)
  + Len(threads)
  + Cardinality({t \in DOMAIN threads : threads[t].state # "running"})

\* a running worker whose send would not block, or a driver that is not waiting
CanStep ==
  \/ pc \in {"call", "merge"}
  \/ pc = "spawn" /\ (remaining_candidates = 0 \/ per_thread_count <= Len(rest)
                      \/ remaining_candidates < per_thread_count)
  \/ pc = "join" /\ \A t \in DOMAIN threads : threads[t].state # "running"
  \/ \E t \in DOMAIN threads : threads[t].state = "running" /\ Len(channel) < Par

\* C22: at most P workers are spawned, so no send on the channel of capacity P
\* blocks; every worker publishes its batch, the scope joins, and the call
\* returns: it never aborts, can take a step until it is done, and every step
\* brings it closer to done.
C22_NoDeadlock ==
  /\ [](/\ Len(threads) <= Par
        /\ \A t \in DOMAIN threads :
             /\ threads[t].state # "panicked"
             /\ threads[t].state = "running" => Len(channel) < Par
        /\ pc \in {"merge"} =>
             /\ Len(channel) = Len(threads)
             /\ \A t \in DOMAIN threads : threads[t].state = "finished"
        /\ pc # "panic"
        /\ pc # "done" => CanStep)
  /\ [][Progress' > Progress]_vars

\* two workers published, the scope joined, the merge ran
C22_Witness ==
  /\ pc = "done"
  /\ Par = 2
  /\ Len(threads) = 2
  /\ \A t \in DOMAIN threads : threads[t].state = "finished"
  /\ Len(output) >= 2

\* C23: every result of search_score carries a candidate_index below len(cs),
\* no index occurs twice, has_match accepts the candidate at that index, and
\* the score is score(q, cs[candidate_index]).score.
C23_ResultsCarryGlobalIndex ==
  (pc = "done" /\ search_fn = "score_inner") =>
    /\ \A a \in DOMAIN output :
         /\ output[a].candidate_index \in 0..(Len(candidates) - 1)
         /\ has_match(query, candidates[output[a].candidate_index + 1])
         /\ score(query, candidates[output[a].candidate_index + 1]).status = "ok"
         /\ output[a].score =
              score(query, candidates[output[a].candidate_index + 1]).value.score
    /\ \A a, b \in DOMAIN output :
         a # b => output[a].candidate_index # output[b].candidate_index

\* the second shard starts at offset 3 and its candidates differ from the first's
C23_Witness ==
  /\ pc = "done"
  /\ search_fn = "score_inner"
  /\ Len(threads) = 2
  /\ threads[2].offset = 3
  /\ Len(output) = 6
  /\ candidates[1] # candidates[6]
  /\ \E a \in DOMAIN output : output[a].candidate_index = 5

\* C24: every LocateResult of locate or search_locate has a match_mask of as
\* many bits as the candidate it refers to has characters, whatever its score.
C24_MaskLengthIsCharCount ==
  /\ (op = "locate" /\ status = "ok") =>
       Len(result.match_mask) = Cardinality(DOMAIN candidate)
  /\ (pc = "done" /\ search_fn = "locate_inner") =>
       \A a \in DOMAIN output :
         Len(output[a].match_mask) =
           Cardinality(DOMAIN candidates[output[a].candidate_index + 1])

\* a finite score on a candidate whose byte count exceeds its character count
C24_Witness ==
  /\ op = "locate"
  /\ status = "ok"
  /\ query = <<"a">>
  /\ candidate = <<"U+267A", "a">>
  /\ str_len(candidate) = 4
  /\ Finite(result.score)
  /\ result.match_mask = <<FALSE, TRUE>>

\* C25: a finite score returned by score(q, c) is at most (C - 1) *
\* SCORE_MATCH_CONSECUTIVE, C being the character count of the candidate.
C25_FiniteScoreBound ==
  (op = "score" /\ status = "ok" /\ Finite(result.score)) =>
    result.score <= (Cardinality(DOMAIN candidate) - 1) * SCORE_MATCH_CONSECUTIVE

\* the highest finite score of a three-character candidate: a slash bonus, a
\* consecutive match and one trailing gap
C25_Witness ==
  /\ op = "score"
  /\ status = "ok"
  /\ Len(candidate) = 3
  /\ result.score = SCORE_MATCH_SLASH + SCORE_MATCH_CONSECUTIVE + SCORE_GAP_TRAILING

\* C26: on a candidate that passed has_match, score_inner and locate_inner
\* never index outside the matrices: whenever the matrices are built,
\* 1 <= q_len < c_len, the loops, the final read and the backward walk stay
\* inside the q_len x c_len cells, and the call returns.
C26_MatrixAccessInRange ==
  (op \in {"score", "locate"} /\ has_match(query, candidate)) =>
    /\ status = "ok"
    /\ LET l == get_lengths(query, candidate)
       IN  l.tag = "Lengths" =>
             /\ 1 <= l.q
             /\ l.q < l.c
             /\ Cardinality(DOMAIN query) = l.q
             /\ Cardinality(DOMAIN candidate) = l.c
             /\ LET mats == score_internal(query, candidate, l.q, l.c)
                IN  /\ DOMAIN mats.best_score_overall = (0..(l.q - 1)) \X (0..(l.c - 1))
                    /\ DOMAIN mats.best_score_w_ending = (0..(l.q - 1)) \X (0..(l.c - 1))

\* locate built 2 x 3 matrices and walked them back to the first column
C26_Witness ==
  /\ op = "locate"
  /\ status = "ok"
  /\ query = <<"a", "/">>
  /\ candidate = <<"a", "a", "/">>
  /\ get_lengths(query, candidate).tag = "Lengths"
  /\ result.match_mask[3]
  /\ Finite(result.score)

\* C29: in the matrices score_internal builds, M[i, j] <= D[i, j] in every
\* cell, no cell holds SCORE_MAX, and D[i, j] is above SCORE_MIN exactly when
\* the first i+1 query characters are a case-folded subsequence of the first
\* j+1 candidate characters.
C29_MatrixInvariant ==
  (op \in {"score", "locate"} /\ get_lengths(query, candidate).tag = "Lengths") =>
    LET l == get_lengths(query, candidate)
        mats == score_internal(query, candidate, l.q, l.c)
        D == mats.best_score_overall
        M == mats.best_score_w_ending
    IN  \A i \in 0..(Len(query) - 1), j \in 0..(Len(candidate) - 1) :
          /\ M[<<i, j>>] <= D[<<i, j>>]
          /\ M[<<i, j>>] # SCORE_MAX
          /\ D[<<i, j>>] # SCORE_MAX
          /\ D[<<i, j>>] > SCORE_MIN <=>
               IsSubsequence(SubSeq(query, 1, i + 1), SubSeq(candidate, 1, j + 1))

\* matrices with a cell where M is below a finite D and a cell where D is SCORE_MIN
C29_Witness ==
  /\ op = "score"
  /\ status = "ok"
  /\ query = <<"a", "/">>
  /\ candidate = <<"a", "/", "a">>
  /\ LET mats == score_internal(query, candidate, 2, 3)
     IN  /\ mats.best_score_w_ending[<<0, 1>>] = SCORE_MIN
         /\ mats.best_score_overall[<<0, 1>>] > SCORE_MIN
         /\ mats.best_score_overall[<<1, 0>>] = SCORE_MIN
         /\ mats.best_score_w_ending[<<1, 1>>] = mats.best_score_overall[<<1, 1>>]
         /\ mats.best_score_overall[<<1, 2>>] = result.score

\* the candidate without its last character, and without its first
ButLast(cand) == SubSeq(cand, 1, Len(cand) - 1)

ButFirst(cand) == SubSeq(cand, 2, Len(cand))

\* the case of C27: score(q, c + x) was computed, has_match(q, c), c has more
\* characters than q, and x is not fold-equal to the last character of q
TrailingCharacterCase ==
  /\ helper = "score"
  /\ ret # <<>>
  /\ has_match(args[1], ButLast(args[2]))
  /\ Len(ButLast(args[2])) > Len(args[1])
  /\ to_lowercase(args[2][Len(args[2])]) # to_lowercase(args[1][Len(args[1])])
  /\ WithinCaps(args[2])

\* C27: score(q, c + x).score == score(q, c).score + SCORE_GAP_TRAILING, so
\* the shorter candidate ranks strictly higher.
C27_TrailingCharacterCostsGap ==
  TrailingCharacterCase =>
    /\ ret[1].status = "ok"
    /\ score_f64(args[1], ButLast(args[2])).status = "ok"
    /\ ~ret[1].value.inf
    /\ ret[1].value =
         f64_add(score_f64(args[1], ButLast(args[2])).value, to_f64(SCORE_GAP_TRAILING))
    /\ f64_lt(ret[1].value, score_f64(args[1], ButLast(args[2])).value)

\* "aa" against "a.a" + "/": 1.49 and one more trailing gap, 1.485
C27_Witness ==
  /\ helper = "score"
  /\ ret # <<>>
  /\ args = << <<"a", "a">>, <<"a", ".", "a", "/">> >>
  /\ ret[1].status = "ok"
  /\ score_f64(args[1], ButLast(args[2])).value.mag = <<6103, 671088, 10737408>>
  /\ ret[1].value.mag = <<6082, 9395240, 16106240>>

\* the case of C28: score(q, "/" + c) was computed, the first character of q
\* is not '/', has_match(q, c) and c has more characters than q
LeadingSlashCase ==
  /\ helper = "score"
  /\ ret # <<>>
  /\ args[1][1] # "/"
  /\ args[2][1] = "/"
  /\ has_match(args[1], ButFirst(args[2]))
  /\ Len(ButFirst(args[2])) > Len(args[1])
  /\ WithinCaps(args[2])

ROUNDING == <<0, 0, 1048576>>

====
